---- MODULE Spec2Model ----
(***************************************************************************)
(* Model of spleeter/model/__init__.py: the model loader, the              *)
(* EstimatorSpecBuilder and model_fn.                                      *)
(*                                                                         *)
(* Python dicts (params, features, labels, output dicts, predictions) are  *)
(* functions whose DOMAIN is the set of keys present.  A raised exception  *)
(* is a value [kind |-> "error", exc, msg]; every operator that can raise  *)
(* returns either that or [kind |-> "ok", value].                          *)
(*                                                                         *)
(* Tensors: on the PREDICT path a tensor is its shape (a tuple of          *)
(* dimensions); on the EVAL/TRAIN path a spectrogram is concrete, a        *)
(* sequence over the batch axis of sequences over the flattened            *)
(* (T, F, channels) cells, because the loss takes means over exactly       *)
(* these two groups of axes.  Exact means are rationals [num, den].        *)
(***************************************************************************)
EXTENDS Integers, Sequences, FiniteSets, TLC

VARIABLES
    params,     \* model_fn argument: the configuration dict
    features,   \* model_fn argument: the features dict (mutated by the builder)
    labels,     \* model_fn argument: the labels dict
    mode,       \* model_fn argument: the estimator mode
    net,        \* what the resolved model function returns when applied
    result      \* what the call returned or raised; NoResult before the call

vars == <<params, features, labels, mode, net, result>>

(***************************************************************************)
(* Bounds of the model.                                                    *)
(***************************************************************************)
MaxSamples == 7
MaxFrameExp == 2
MaxFrameStep == 3
MaxT == 2
MaxChannels == 2
MaxVal == 2

(***************************************************************************)
(* Generic helpers.                                                        *)
(***************************************************************************)
NoResult == [kind |-> "none"]
Raise(exc, msg) == [kind |-> "error", exc |-> exc, msg |-> msg]
Ok(v) == [kind |-> "ok", value |-> v]
IsError(r) == r.kind = "error"

Empty == <<>>
Has(d, k) == k \in DOMAIN d
Put(d, k, v) == (k :> v) @@ d
Range(s) == { s[i] : i \in DOMAIN s }
Min(a, b) == IF a <= b THEN a ELSE b
Abs(x) == IF x < 0 THEN -x ELSE x
CeilDiv(a, b) == (a + b - 1) \div b

RECURSIVE SumSeq(_)
SumSeq(s) == IF s = <<>> THEN 0 ELSE Head(s) + SumSeq(Tail(s))

\* f'{name}_spectrogram', f'{name}_stft'
SpectrogramKey(name) == name \o "_spectrogram"
StftKey(name) == name \o "_stft"

(***************************************************************************)
(* tf.estimator.ModeKeys                                                   *)
(***************************************************************************)
PREDICT == "infer"
EVAL == "eval"
TRAIN == "train"

(***************************************************************************)
(* Class constants of EstimatorSpecBuilder.  A dotted identifier is the    *)
(* sequence of its dot-separated components.                               *)
(***************************************************************************)
DEFAULT_MODEL == <<"unet", "unet">>
L1_MASK == "L1_mask"
WEIGHTED_L1_MASK == "weighted_L1_mask"
ADADELTA == "Adadelta"
SGD == "SGD"

(***************************************************************************)
(* The four configuration errors of the specification's taxonomy, as the   *)
(* code raises them: each is a ValueError told apart by its message.       *)
(***************************************************************************)
ModelNotFoundError == Raise("ValueError", "No model function found")
UnsupportedLossError == Raise("ValueError", "Unknown loss type")
UnsupportedMaskExtensionError == Raise("ValueError", "Invalid mask_extension parameter")
UnsupportedModeError == Raise("ValueError", "Unknown mode")
ConfigurationErrors ==
    {ModelNotFoundError, UnsupportedLossError,
     UnsupportedMaskExtensionError, UnsupportedModeError}

(***************************************************************************)
(* Model loader.                                                           *)
(***************************************************************************)
\* The submodules importable under spleeter.model.functions and the
\* functions each defines.
ModelFunctions == (<<"unet">> :> {"unet", "softmax_unet"})

\* importlib.import_module(f'{main_module}.{relative_path_to_module}'):
\* an empty relative path gives a module name with a trailing dot, which,
\* like the name of a missing submodule, raises ModuleNotFoundError.
import_module(relative_path_to_module) ==
    IF relative_path_to_module \in DOMAIN ModelFunctions
    THEN Ok(relative_path_to_module)
    ELSE Raise("ModuleNotFoundError", "No module named")

get_model_function(model_type) ==
    LET relative_path_to_module == SubSeq(model_type, 1, Len(model_type) - 1)
        model_name == model_type[Len(model_type)]
        module == import_module(relative_path_to_module)
    IN  IF IsError(module) THEN module
        ELSE IF model_name \notin ModelFunctions[module.value]
        THEN Raise("AttributeError", "module has no attribute")
        ELSE Ok([module |-> module.value, name |-> model_name])

(***************************************************************************)
(* EstimatorSpecBuilder.__init__: the seven required keys are read with    *)
(* params[...].                                                            *)
(***************************************************************************)
RequiredKeys ==
    {"mix_name", "instrument_list", "n_channels", "T", "F",
     "frame_length", "frame_step"}

EstimatorSpecBuilder(p_features, p_params) ==
    IF \E k \in RequiredKeys : ~Has(p_params, k)
    THEN Raise("KeyError", "required")
    ELSE Ok([_features |-> p_features,
             _params |-> p_params,
             _mix_name |-> p_params["mix_name"],
             _instruments |-> p_params["instrument_list"],
             _n_channels |-> p_params["n_channels"],
             _T |-> p_params["T"],
             _F |-> p_params["F"],
             _frame_length |-> p_params["frame_length"],
             _frame_step |-> p_params["frame_step"]])

(***************************************************************************)
(* _build_output_dict.  apply_model(...) is the resolved model function    *)
(* applied to the input tensor; its value is p_net.                        *)
(***************************************************************************)
_build_output_dict(self, p_net) ==
    IF ~Has(self._features, SpectrogramKey(self._mix_name))
    THEN Raise("KeyError", SpectrogramKey(self._mix_name))
    ELSE
    LET model_type ==
            IF Has(self._params, "model")
            THEN IF Has(self._params["model"], "type")
                 THEN self._params["model"]["type"]
                 ELSE DEFAULT_MODEL
            ELSE DEFAULT_MODEL
        apply_model == get_model_function(model_type)
    IN  IF IsError(apply_model) /\ apply_model.exc = "ModuleNotFoundError"
        THEN ModelNotFoundError
        ELSE IF IsError(apply_model) THEN apply_model
        ELSE IF ~Has(self._params, "model") THEN Raise("KeyError", "model")
        ELSE IF ~Has(self._params["model"], "params") THEN Raise("KeyError", "params")
        ELSE Ok(p_net)

(***************************************************************************)
(* _build_loss on concrete spectrograms.                                   *)
(***************************************************************************)
RatAdd(a, b) == [num |-> a.num * b.den + b.num * a.den, den |-> a.den * b.den]
RatZero == [num |-> 0, den |-> 1]

\* tf.abs(output - labels[name])
AbsDifference(output, label) ==
    [b \in DOMAIN output |-> [k \in DOMAIN output[b] |-> Abs(output[b][k] - label[b][k])]]

\* the number of elements of a tensor
TensorSize(t) == SumSeq([b \in DOMAIN t |-> Len(t[b])])

\* tf.reduce_mean(t): the mean over all elements
ReduceMean(t) ==
    [num |-> SumSeq([b \in DOMAIN t |-> SumSeq(t[b])]), den |-> TensorSize(t)]

\* tf.reduce_mean(t, axis=[1, 2, 3], keep_dims=True): one mean per batch item
ReduceMeanPerItem(t) ==
    [b \in DOMAIN t |-> [num |-> SumSeq(t[b]), den |-> Len(t[b])]]

\* name: tf.reduce_mean(tf.abs(output - labels[name]))
L1Term(output, label) == ReduceMean(AbsDifference(output, label))

\* tf.reduce_mean(w * d) for per-item weights w (rationals of one
\* denominator per item) broadcast over the cells of d
ReduceMeanWeighted(w, d) ==
    [num |-> SumSeq([b \in DOMAIN d |-> w[b].num * SumSeq(d[b])]),
     den |-> w[1].den * TensorSize(d)]

\* the same term with the weight taken from the estimate instead of the label
WeightedL1TermOfEstimate(output, label) ==
    ReduceMeanWeighted(ReduceMeanPerItem(output), AbsDifference(output, label))

\* name: tf.reduce_mean(tf.reduce_mean(labels[name], axis=[1, 2, 3],
\*                      keep_dims=True) * tf.abs(output - labels[name]))
WeightedL1Term(output, label) ==
    ReduceMeanWeighted(ReduceMeanPerItem(label), AbsDifference(output, label))

\* tf.reduce_sum(list(losses.values()))
RECURSIVE ReduceSumValues(_)
ReduceSumValues(losses) ==
    IF DOMAIN losses = {} THEN RatZero
    ELSE LET k == CHOOSE x \in DOMAIN losses : TRUE
         IN  RatAdd(losses[k],
                    ReduceSumValues([x \in DOMAIN losses \ {k} |-> losses[x]]))

_build_loss(self, output_dict, p_labels) ==
    LET loss_type ==
            IF Has(self._params, "loss_type") THEN self._params["loss_type"]
            ELSE L1_MASK
    IN  IF loss_type \notin {L1_MASK, WEIGHTED_L1_MASK} THEN UnsupportedLossError
        ELSE IF \E name \in DOMAIN output_dict : ~Has(p_labels, name)
        THEN Raise("KeyError", "labels")
        ELSE
        LET losses ==
                [name \in DOMAIN output_dict |->
                    IF loss_type = L1_MASK
                    THEN L1Term(output_dict[name], p_labels[name])
                    ELSE WeightedL1Term(output_dict[name], p_labels[name])]
            loss == ReduceSumValues(losses)
            metrics == ("absolute_difference" :> loss) @@ losses
        IN  Ok([loss |-> loss, metrics |-> metrics])

(***************************************************************************)
(* _build_optimizer                                                        *)
(***************************************************************************)
\* a variant that rejects an optimizer name it does not know
_build_optimizer_strict(self) ==
    LET named == Has(self._params, "optimizer")
    IN  IF named /\ self._params["optimizer"] = ADADELTA
        THEN Ok([optimizer |-> "AdadeltaOptimizer"])
        ELSE IF ~Has(self._params, "learning_rate")
        THEN Raise("KeyError", "learning_rate")
        ELSE IF named /\ self._params["optimizer"] = SGD
        THEN Ok([optimizer |-> "GradientDescentOptimizer",
                 rate |-> self._params["learning_rate"]])
        ELSE IF named
        THEN Raise("ValueError", "Unknown optimizer")
        ELSE Ok([optimizer |-> "AdamOptimizer",
                 rate |-> self._params["learning_rate"]])

_build_optimizer(self) ==
    LET named == Has(self._params, "optimizer")
    IN  IF named /\ self._params["optimizer"] = ADADELTA
        THEN Ok([optimizer |-> "AdadeltaOptimizer"])
        ELSE IF ~Has(self._params, "learning_rate")
        THEN Raise("KeyError", "learning_rate")
        ELSE IF named /\ self._params["optimizer"] = SGD
        THEN Ok([optimizer |-> "GradientDescentOptimizer",
                 rate |-> self._params["learning_rate"]])
        ELSE Ok([optimizer |-> "AdamOptimizer",
                 rate |-> self._params["learning_rate"]])

(***************************************************************************)
(* Shapes on the PREDICT path.                                             *)
(***************************************************************************)
\* tf.transpose(t, perm): perm is 0-based
Transpose(shape, perm) == [i \in 1..Len(perm) |-> shape[perm[i] + 1]]
\* tf.transpose(t) of a 2-D tensor
Transpose2(shape) == <<shape[2], shape[1]>>

RECURSIVE EnclosingPowerOfTwo(_)
EnclosingPowerOfTwo(n) == IF n <= 1 THEN 1 ELSE 2 * EnclosingPowerOfTwo((n + 1) \div 2)

\* tensorflow.contrib.signal.stft(signals, frame_length, frame_step,
\* pad_end=True) of signals shaped (channels, samples): with end padding the
\* frame count is samples / frame_step rounded up; fft_length defaults to the
\* smallest power of two enclosing frame_length, which gives
\* fft_length // 2 + 1 frequency bins.
stft(signals, frame_length, frame_step) ==
    <<signals[1],
      CeilDiv(signals[2], frame_step),
      EnclosingPowerOfTwo(frame_length) \div 2 + 1>>

\* tensorflow.contrib.signal.inverse_stft(stfts, frame_length, frame_step) of
\* stfts shaped (channels, frames, bins): overlap-add of frames of
\* frame_length samples placed frame_step apart.
inverse_stft(stfts, frame_length, frame_step) ==
    <<stfts[1], (stfts[2] - 1) * frame_step + frame_length>>

\* spleeter.utils.tensor.pad_and_partition(tensor, segment_len): the first
\* axis is padded to a multiple of segment_len and split into segments.
pad_and_partition(tensor, segment_len) ==
    <<CeilDiv(tensor[1], segment_len), segment_len>> \o Tail(tensor)

\* spleeter.utils.tensor.pad_and_reshape(instr_spec, frame_length, F): the
\* frequency axis is padded to frame_length // 2 + 1 bins and the segments
\* are stacked back into one time axis.
pad_and_reshape(instr_spec, frame_length, F) ==
    <<instr_spec[1] * instr_spec[2], frame_length \div 2 + 1, instr_spec[4]>>

\* t[:k, ...]
SliceFirstAxis(shape, k) == <<Min(shape[1], k)>> \o Tail(shape)

\* elementwise product of two tensors: the shapes must agree, or be 1, on
\* every axis
CanBroadcast(a, b) ==
    /\ Len(a) = Len(b)
    /\ \A i \in DOMAIN a : a[i] = b[i] \/ a[i] = 1 \/ b[i] = 1

(***************************************************************************)
(* _build_stft_feature: returns the features dict with the two entries     *)
(* added.                                                                  *)
(***************************************************************************)
_build_stft_feature(self) ==
    IF ~Has(self._features, "waveform") THEN Raise("KeyError", "waveform")
    ELSE
    LET stft_feature ==
            Transpose(
                stft(Transpose2(self._features["waveform"]),
                     self._frame_length, self._frame_step),
                <<1, 2, 0>>)
        partitioned == pad_and_partition(stft_feature, self._T)
        \* [:, :, :self._F, :]
        spectrogram ==
            <<partitioned[1], partitioned[2],
              Min(partitioned[3], self._F), partitioned[4]>>
    IN  Ok(Put(Put(self._features, StftKey(self._mix_name), stft_feature),
               SpectrogramKey(self._mix_name), spectrogram))

(***************************************************************************)
(* _inverse_stft                                                           *)
(***************************************************************************)
_inverse_stft(self, stft_shape) ==
    LET inversed ==
            inverse_stft(Transpose(stft_shape, <<2, 0, 1>>),
                         self._frame_length, self._frame_step)
        reshaped == Transpose2(inversed)
    IN  SliceFirstAxis(reshaped, self._features["waveform"][1])

(***************************************************************************)
(* _build_mwf_output_waveform: norbert.wiener(v, x) returns one complex    *)
(* spectrogram of the shape of x per stacked estimate.                     *)
(***************************************************************************)
_build_mwf_output_waveform(self, output_dict) ==
    LET x == self._features[StftKey(self._mix_name)]
        missing == { i \in DOMAIN self._instruments :
                        ~Has(output_dict, SpectrogramKey(self._instruments[i])) }
        \* one slice of v, before the stack on axis 3
        v == [i \in DOMAIN self._instruments |->
                SliceFirstAxis(
                    pad_and_reshape(
                        output_dict[SpectrogramKey(self._instruments[i])],
                        self._frame_length, self._F),
                    x[1])]
    IN  IF missing # {} THEN Raise("KeyError", "output_dict")
        ELSE IF \E i \in DOMAIN v : v[i] # x
        THEN Raise("InvalidArgumentError", "wiener")
        ELSE Ok([instrument \in Range(self._instruments) |-> _inverse_stft(self, x)])

(***************************************************************************)
(* _extend_mask on the shape of a mask (batch, T, F, channels).            *)
(***************************************************************************)
_extend_mask_shape(self, mask) ==
    IF ~Has(self._params, "mask_extension") THEN Raise("KeyError", "mask_extension")
    ELSE
    LET extension == self._params["mask_extension"]
        n_extra_row == self._frame_length \div 2 + 1 - self._F
    IN  IF extension \notin {"average", "zeros"} THEN UnsupportedMaskExtensionError
        ELSE IF n_extra_row < 0 THEN Raise("InvalidArgumentError", "tile")
        ELSE Ok(<<mask[1], mask[2], mask[3] + n_extra_row, mask[4]>>)

(***************************************************************************)
(* _build_manual_output_waveform                                           *)
(***************************************************************************)
\* the body of the loop for one instrument
ManualInstrumentWaveform(self, output_dict, instrument) ==
    IF ~Has(output_dict, SpectrogramKey(instrument))
    THEN Raise("KeyError", "output_dict")
    ELSE
    LET output == output_dict[SpectrogramKey(instrument)]
        extended == _extend_mask_shape(self, output)
    IN  IF IsError(extended) THEN extended
        ELSE
        LET old_shape == extended.value
            new_shape == <<old_shape[1] * old_shape[2], old_shape[3], old_shape[4]>>
            stft_feature == self._features[StftKey(self._mix_name)]
            instrument_mask == SliceFirstAxis(new_shape, stft_feature[1])
        IN  IF ~CanBroadcast(instrument_mask, stft_feature)
            THEN Raise("ValueError", "Dimensions must be equal")
            ELSE Ok(_inverse_stft(self, stft_feature))

_build_manual_output_waveform(self, output_dict) ==
    IF ~Has(self._params, "separation_exponent")
    THEN Raise("KeyError", "separation_exponent")
    ELSE
    LET each == [i \in DOMAIN self._instruments |->
                    ManualInstrumentWaveform(self, output_dict, self._instruments[i])]
        failed == { i \in DOMAIN each : IsError(each[i]) }
    IN  IF failed # {}
        THEN each[CHOOSE i \in failed : \A j \in failed : i <= j]
        ELSE Ok([instrument \in Range(self._instruments) |->
                    each[CHOOSE i \in DOMAIN each :
                            self._instruments[i] = instrument].value])

(***************************************************************************)
(* _build_output_waveform                                                  *)
(***************************************************************************)
\* a variant that never copies audio_id
_build_output_waveform_no_passthrough(self, output_dict) ==
    IF Has(self._params, "MWF") /\ self._params["MWF"]
    THEN _build_mwf_output_waveform(self, output_dict)
    ELSE _build_manual_output_waveform(self, output_dict)

_build_output_waveform(self, output_dict) ==
    LET output_waveform ==
            IF Has(self._params, "MWF") /\ self._params["MWF"]
            THEN _build_mwf_output_waveform(self, output_dict)
            ELSE _build_manual_output_waveform(self, output_dict)
    IN  IF IsError(output_waveform) THEN output_waveform
        ELSE IF Has(self._features, "audio_id")
        THEN Ok(Put(output_waveform.value, "audio_id", self._features["audio_id"]))
        ELSE output_waveform

(***************************************************************************)
(* The three builders.  Each returns the features dict as the builder      *)
(* leaves it and what the builder returned or raised; a returned           *)
(* EstimatorSpec is the dict of the keyword arguments it was made from.    *)
(***************************************************************************)
Outcome(p_features, p_result) == [features |-> p_features, result |-> p_result]
EstimatorSpec(fields) == [kind |-> "spec", spec |-> fields]

\* a variant that transforms a copy of the features and leaves the caller's
\* dict alone when it fails
build_predict_model_on_copy(self, p_net) ==
    LET with_stft == _build_stft_feature(self)
    IN  IF IsError(with_stft) THEN Outcome(self._features, with_stft)
        ELSE
        LET self1 == [self EXCEPT !._features = with_stft.value]
            output_dict == _build_output_dict(self1, p_net)
        IN  IF IsError(output_dict) THEN Outcome(self._features, output_dict)
            ELSE
            LET output_waveform == _build_output_waveform(self1, output_dict.value)
            IN  IF IsError(output_waveform)
                THEN Outcome(self._features, output_waveform)
                ELSE Outcome(self1._features,
                             EstimatorSpec([mode |-> PREDICT,
                                            predictions |-> output_waveform.value]))

build_predict_model(self, p_net) ==
    LET with_stft == _build_stft_feature(self)
    IN  IF IsError(with_stft) THEN Outcome(self._features, with_stft)
        ELSE
        LET self1 == [self EXCEPT !._features = with_stft.value]
            output_dict == _build_output_dict(self1, p_net)
        IN  IF IsError(output_dict) THEN Outcome(self1._features, output_dict)
            ELSE
            LET output_waveform == _build_output_waveform(self1, output_dict.value)
            IN  IF IsError(output_waveform)
                THEN Outcome(self1._features, output_waveform)
                ELSE Outcome(self1._features,
                             EstimatorSpec([mode |-> PREDICT,
                                            predictions |-> output_waveform.value]))

build_evaluation_model(self, p_labels, p_net) ==
    LET output_dict == _build_output_dict(self, p_net)
    IN  IF IsError(output_dict) THEN Outcome(self._features, output_dict)
        ELSE
        LET built == _build_loss(self, output_dict.value, p_labels)
        IN  IF IsError(built) THEN Outcome(self._features, built)
            ELSE Outcome(self._features,
                         EstimatorSpec([mode |-> EVAL,
                                        loss |-> built.value.loss,
                                        eval_metric_ops |-> built.value.metrics]))

build_train_model(self, p_labels, p_net) ==
    LET output_dict == _build_output_dict(self, p_net)
    IN  IF IsError(output_dict) THEN Outcome(self._features, output_dict)
        ELSE
        LET built == _build_loss(self, output_dict.value, p_labels)
        IN  IF IsError(built) THEN Outcome(self._features, built)
            ELSE
            LET optimizer == _build_optimizer(self)
            IN  IF IsError(optimizer) THEN Outcome(self._features, optimizer)
                ELSE Outcome(self._features,
                             EstimatorSpec([mode |-> TRAIN,
                                            loss |-> built.value.loss,
                                            train_op |-> optimizer.value,
                                            eval_metric_ops |-> built.value.metrics]))

(***************************************************************************)
(* model_fn                                                                *)
(***************************************************************************)
\* a variant whose EVAL and TRAIN branches are exchanged
model_fn_swapped(p_features, p_labels, p_mode, p_params, p_net) ==
    LET builder == EstimatorSpecBuilder(p_features, p_params)
    IN  IF IsError(builder) THEN Outcome(p_features, builder)
        ELSE IF p_mode = PREDICT THEN build_predict_model(builder.value, p_net)
        ELSE IF p_mode = EVAL THEN build_train_model(builder.value, p_labels, p_net)
        ELSE IF p_mode = TRAIN THEN build_evaluation_model(builder.value, p_labels, p_net)
        ELSE Outcome(p_features, UnsupportedModeError)

model_fn(p_features, p_labels, p_mode, p_params, p_net) ==
    LET builder == EstimatorSpecBuilder(p_features, p_params)
    IN  IF IsError(builder) THEN Outcome(p_features, builder)
        ELSE IF p_mode = PREDICT THEN build_predict_model(builder.value, p_net)
        ELSE IF p_mode = EVAL THEN build_evaluation_model(builder.value, p_labels, p_net)
        ELSE IF p_mode = TRAIN THEN build_train_model(builder.value, p_labels, p_net)
        ELSE Outcome(p_features, UnsupportedModeError)

(***************************************************************************)
(* The mask arithmetic of _build_manual_output_waveform and _extend_mask   *)
(* on concrete tensors t[batch][time][bin][channel].                       *)
(*                                                                         *)
(* EPSILON stays symbolic.  With N = len(output_dict), a quantity          *)
(* (c + e * EPSILON) / N is the pair [c, e] of integers, and a mask is the *)
(* quotient [num, den] of two such quantities.                             *)
(***************************************************************************)
\* tf.reduce_sum([e ** separation_exponent for e in output_dict.values()],
\* axis=0) at one cell
RECURSIVE PowerSum(_, _, _, _, _, _)
PowerSum(output_dict, separation_exponent, b, i, f, c) ==
    IF DOMAIN output_dict = {} THEN 0
    ELSE LET k == CHOOSE x \in DOMAIN output_dict : TRUE
         IN  output_dict[k][b][i][f][c] ^ separation_exponent
             + PowerSum([x \in DOMAIN output_dict \ {k} |-> output_dict[x]],
                        separation_exponent, b, i, f, c)

\* EPSILON without the division by len(output_dict)
EpsilonUndivided(output_dict) == Cardinality(DOMAIN output_dict)

\* EPSILON / len(output_dict): once EPSILON / N
EpsilonPerInstrument(output_dict) == 1

\* (output ** separation_exponent + EPSILON / len(output_dict)) / output_sum
instrument_mask(output_dict, separation_exponent, output) ==
    LET N == Cardinality(DOMAIN output_dict)
    IN  [b \in DOMAIN output |-> [i \in DOMAIN output[b] |->
            [f \in DOMAIN output[b][i] |-> [c \in DOMAIN output[b][i][f] |->
                [num |-> [c |-> N * output[b][i][f][c] ^ separation_exponent,
                          e |-> EpsilonPerInstrument(output_dict)],
                 den |-> [c |-> N * PowerSum(output_dict, separation_exponent,
                                             b, i, f, c),
                          e |-> N]]]]]]

\* the masks of the loop of _build_manual_output_waveform, before extension
instrument_masks(self, output_dict) ==
    IF ~Has(self._params, "separation_exponent")
    THEN Raise("KeyError", "separation_exponent")
    ELSE IF \E i \in DOMAIN self._instruments :
                ~Has(output_dict, SpectrogramKey(self._instruments[i]))
    THEN Raise("KeyError", "output_dict")
    ELSE Ok([instrument \in Range(self._instruments) |->
                instrument_mask(output_dict, self._params["separation_exponent"],
                                output_dict[SpectrogramKey(instrument)])])

\* the mean over the channel axis instead of the frequency axis
ReduceMeanAxis3(mask) ==
    [b \in DOMAIN mask |-> [i \in DOMAIN mask[b] |->
        [c \in DOMAIN mask[b][i][1] |->
            [num |-> SumSeq(mask[b][i][1]), den |-> Len(mask[b][i][1])]]]]

\* tf.reduce_mean(mask, axis=2, keepdims=True): one row per (batch, time),
\* a value per channel
ReduceMeanAxis2(mask) ==
    [b \in DOMAIN mask |-> [i \in DOMAIN mask[b] |->
        [c \in DOMAIN mask[b][i][1] |->
            [num |-> SumSeq([f \in DOMAIN mask[b][i] |-> mask[b][i][f][c]]),
             den |-> Len(mask[b][i])]]]]

\* tf.zeros((mask_shape[0], mask_shape[1], 1, mask_shape[-1]))
ZerosRow(mask) ==
    [b \in DOMAIN mask |-> [i \in DOMAIN mask[b] |->
        [c \in DOMAIN mask[b][i][1] |-> RatZero]]]

_extend_mask(self, mask) ==
    IF ~Has(self._params, "mask_extension") THEN Raise("KeyError", "mask_extension")
    ELSE
    LET extension == self._params["mask_extension"]
        n_extra_row == self._frame_length \div 2 + 1 - self._F
    IN  IF extension \notin {"average", "zeros"} THEN UnsupportedMaskExtensionError
        ELSE IF n_extra_row < 0 THEN Raise("InvalidArgumentError", "tile")
        ELSE
        LET extension_row ==
                IF extension = "average" THEN ReduceMeanAxis2(mask) ELSE ZerosRow(mask)
        IN  \* tf.concat([mask, tf.tile(extension_row, [1, 1, n_extra_row, 1])], axis=2)
            Ok([b \in DOMAIN mask |-> [i \in DOMAIN mask[b] |->
                    [f \in 1..(Len(mask[b][i]) + n_extra_row) |->
                        IF f <= Len(mask[b][i])
                        THEN [c \in DOMAIN mask[b][i][f] |->
                                [num |-> mask[b][i][f][c], den |-> 1]]
                        ELSE extension_row[b][i]]]])

(***************************************************************************)
(* The calls explored.  A call of model_fn is its four arguments and the   *)
(* output of the model function; three families of calls are enumerated:   *)
(* every configuration on fixed signals (InitConfig), every signal         *)
(* geometry in PREDICT mode (InitShape) and every small spectrogram in     *)
(* EVAL and TRAIN mode (InitTensor).                                       *)
(***************************************************************************)
\* an optional key: absent, or present with one of vals
Optional(k, vals) == {Empty} \cup { k :> v : v \in vals }

InstrumentLists == {<<"vocals">>, <<"vocals", "accompaniment">>}
AllModes == {PREDICT, EVAL, TRAIN, "export"}

ModelTypes ==
    {<<"unet", "unet">>, <<"nonexistent", "foo">>, <<"unet", "missing">>, <<"unet">>}
ModelDicts ==
    { t @@ q : t \in Optional("type", ModelTypes),
               q \in Optional("params", {[conv_activation |-> "ELU"]}) }

Required(instruments, n_channels, T, F, frame_length, frame_step) ==
    [mix_name |-> "mix", instrument_list |-> instruments, n_channels |-> n_channels,
     T |-> T, F |-> F, frame_length |-> frame_length, frame_step |-> frame_step]

OptionalSettings ==
    { m @@ l @@ o @@ r @@ w @@ e @@ x :
        m \in Optional("model", ModelDicts),
        l \in Optional("loss_type", {L1_MASK, WEIGHTED_L1_MASK, "L2_mask"}),
        o \in Optional("optimizer", {ADADELTA, SGD, "Momentum"}),
        r \in Optional("learning_rate", {1}),
        w \in Optional("MWF", BOOLEAN),
        e \in Optional("mask_extension", {"average", "zeros", "nearest"}),
        x \in Optional("separation_exponent", {2}) }

FullModel == [type |-> <<"unet", "unet">>, params |-> [conv_activation |-> "ELU"]]

AudioIds == Optional("audio_id", {"track-1"})

\* the output of a model function honouring its contract on the PREDICT
\* path: one (batch, T, F, channels) estimate per instrument, batch being
\* the number of segments of T frames
PredictNet(p, waveform) ==
    LET frames == CeilDiv(waveform[1], p["frame_step"])
        batch == CeilDiv(frames, p["T"])
    IN  [k \in { SpectrogramKey(i) : i \in Range(p["instrument_list"]) } |->
            <<batch, p["T"], p["F"], waveform[2]>>]

SpectrogramKeys(instruments) == { SpectrogramKey(i) : i \in Range(instruments) }

Tensors(batch, cells) == [1..batch -> [1..cells -> 0..MaxVal]]

\* a 5-sample stereo waveform, frame_length 4, frame_step 2, T = F = 2
InitConfig ==
    \E o \in OptionalSettings, m \in AllModes, a \in AudioIds :
        LET p == Required(<<"vocals", "accompaniment">>, 2, 2, 2, 4, 2) @@ o
            keys == SpectrogramKeys(p["instrument_list"])
        IN  /\ params = p
            /\ mode = m
            /\ IF m \in {EVAL, TRAIN}
               THEN /\ features = ("mix_spectrogram" :> <<<<2>>>>) @@ a
                    /\ labels = [k \in keys |-> <<<<1>>>>]
                    /\ net = [k \in keys |-> <<<<2>>>>]
               ELSE /\ features = [waveform |-> <<5, 2>>] @@ a
                    /\ labels = Empty
                    /\ net = PredictNet(p, <<5, 2>>)
            /\ result = NoResult

\* frame_length is a power of two, the transform's FFT size being the
\* enclosing power of two, and F is at most frame_length // 2 + 1;
\* frame_step is free, below and above frame_length.
InitShape ==
    \E e \in 0..MaxFrameExp, frame_step \in 1..MaxFrameStep, T \in 1..MaxT,
       n \in 1..MaxSamples, c \in 1..MaxChannels, instruments \in InstrumentLists,
       w \in Optional("MWF", {TRUE}), x \in {"average", "zeros"}, a \in AudioIds :
        \E F \in 1..(2^e \div 2 + 1) :
            LET p == Required(instruments, c, T, F, 2^e, frame_step)
                        @@ [model |-> FullModel, mask_extension |-> x,
                            separation_exponent |-> 2] @@ w
            IN  /\ params = p
                /\ mode = PREDICT
                /\ features = [waveform |-> <<n, c>>] @@ a
                /\ labels = Empty
                /\ net = PredictNet(p, <<n, c>>)
                /\ result = NoResult

\* (instrument list, batch size, cells per batch item)
TensorCases ==
    {<<<<"vocals", "accompaniment">>, 1, 1>>, <<<<"vocals">>, 2, 2>>}

InitTensor ==
    \E case \in TensorCases, l \in {L1_MASK, WEIGHTED_L1_MASK}, m \in {EVAL, TRAIN} :
        LET p == Required(case[1], 2, 2, 2, 4, 2)
                    @@ [model |-> FullModel, loss_type |-> l, optimizer |-> ADADELTA]
            keys == SpectrogramKeys(case[1])
        IN  /\ params = p
            /\ mode = m
            /\ features = [mix_spectrogram |-> [b \in 1..case[2] |-> [k \in 1..case[3] |-> 1]]]
            /\ labels \in [keys -> Tensors(case[2], case[3])]
            /\ net \in [keys -> Tensors(case[2], case[3])]
            /\ result = NoResult

Init == InitConfig \/ InitShape \/ InitTensor

(***************************************************************************)
(* The one operation: the estimator framework calls model_fn.              *)
(***************************************************************************)
CallModelFn ==
    /\ result = NoResult
    /\ LET out == model_fn(features, labels, mode, params, net)
       IN  /\ features' = out.features
           /\ result' = out.result
    /\ UNCHANGED <<params, labels, mode, net>>

Next == CallModelFn

Spec == Init /\ [][Next]_vars

(***************************************************************************)
(* The mask arithmetic on its own: the inputs are drawn from small         *)
(* tensors, and the two operations are applied to them.                    *)
(***************************************************************************)
\* (instrument list, <<batch, T, F, channels>>)
MaskCases ==
    {<<<<"vocals">>, <<1, 1, 1, 1>>>>, <<<<"vocals">>, <<1, 2, 1, 1>>>>,
     <<<<"vocals">>, <<1, 1, 2, 1>>>>, <<<<"vocals">>, <<1, 1, 1, 2>>>>,
     <<<<"vocals">>, <<1, 2, 2, 1>>>>, <<<<"vocals">>, <<1, 1, 2, 2>>>>,
     <<<<"vocals">>, <<2, 1, 2, 1>>>>,
     <<<<"vocals", "accompaniment">>, <<1, 1, 1, 1>>>>,
     <<<<"vocals", "accompaniment">>, <<1, 1, 2, 1>>>>,
     <<<<"vocals", "accompaniment">>, <<1, 1, 1, 2>>>>}

Tensors4(shape) ==
    [1..shape[1] -> [1..shape[2] -> [1..shape[3] -> [1..shape[4] -> 0..MaxVal]]]]

InitMask ==
    \E case \in MaskCases, e \in 1..MaxFrameExp,
       x \in {"average", "zeros", "nearest"}, q \in {1, 2} :
        /\ case[2][3] <= 2^e \div 2 + 1
        /\ params = Required(case[1], case[2][4], case[2][2], case[2][3], 2^e, 1)
                        @@ [mask_extension |-> x, separation_exponent |-> q]
        /\ net \in [SpectrogramKeys(case[1]) -> Tensors4(case[2])]
        /\ features = Empty
        /\ labels = Empty
        /\ mode = PREDICT
        /\ result = NoResult

\* the masks of every instrument, as the loop computes them
ComputeMasks ==
    /\ result = NoResult
    /\ LET self == EstimatorSpecBuilder(features, params).value
       IN  result' = [kind |-> "masks", masks |-> instrument_masks(self, net)]
    /\ UNCHANGED <<params, features, labels, mode, net>>

\* _extend_mask applied to one tensor of F bins
ExtendMask ==
    /\ result = NoResult
    /\ \E k \in DOMAIN net :
        LET self == EstimatorSpecBuilder(features, params).value
        IN  result' = [kind |-> "extended", mask |-> net[k],
                       extended |-> _extend_mask(self, net[k])]
    /\ UNCHANGED <<params, features, labels, mode, net>>

NextMask == ComputeMasks \/ ExtendMask

SpecMask == InitMask /\ [][NextMask]_vars

(***************************************************************************)
(* Properties.                                                             *)
(***************************************************************************)
Called == result.kind # "none"
Returned == result.kind = "spec"
Failed == result.kind = "error"
KnownModes == {PREDICT, EVAL, TRAIN}
Instruments == Range(params["instrument_list"])

IsConfigurationError(r) ==
    /\ r.kind = "error"
    /\ r.exc = "ValueError"
    /\ r.msg \in { e.msg : e \in ConfigurationErrors }

FailedWith(e) == Failed /\ result.exc = e.exc /\ result.msg = e.msg

\* C1: model_fn dispatches on the mode: a returned spec is tagged with the
\* mode of the call and carries exactly that mode's fields (PREDICT:
\* predictions; EVAL: loss and metrics, no train operation; TRAIN: loss,
\* metrics and a train operation); every other mode value returns no spec
\* and fails with the unknown-mode error, which no known mode raises.
C1_ModeDispatch ==
    /\ Returned =>
        /\ mode \in KnownModes
        /\ result.spec["mode"] = mode
        /\ DOMAIN result.spec =
            IF mode = PREDICT THEN {"mode", "predictions"}
            ELSE IF mode = EVAL THEN {"mode", "loss", "eval_metric_ops"}
            ELSE {"mode", "loss", "eval_metric_ops", "train_op"}
    /\ (Called /\ mode \notin KnownModes) => FailedWith(UnsupportedModeError)
    /\ FailedWith(UnsupportedModeError) => mode \notin KnownModes

C1_Witness ==
    /\ mode = TRAIN
    /\ Returned
    /\ Has(result.spec, "train_op")

\* C2: in PREDICT mode the predictions map has one key per configured
\* instrument, plus audio_id exactly when the features hold audio_id, with
\* the features' value unchanged, under the ratio-mask and the MWF strategy.
C2_PredictionKeys ==
    (mode = PREDICT /\ Returned) =>
        /\ DOMAIN result.spec["predictions"] =
            Instruments \cup (IF Has(features, "audio_id") THEN {"audio_id"} ELSE {})
        /\ Has(features, "audio_id") =>
            result.spec["predictions"]["audio_id"] = features["audio_id"]

C2_Witness ==
    /\ mode = PREDICT
    /\ Returned
    /\ Has(params, "MWF") /\ params["MWF"]
    /\ Has(features, "audio_id")
    /\ Cardinality(Instruments) = 2

\* C3: in PREDICT mode every instrument's output waveform has the sample
\* count and the channel count of the input waveform, for every
\* frame_length, frame_step and T.
C3_OutputLength ==
    (mode = PREDICT /\ Returned) =>
        \A i \in Instruments :
            result.spec["predictions"][i] = features["waveform"]

\* the identifier the builder resolves
ConfiguredModelType ==
    IF Has(params, "model") /\ Has(params["model"], "type")
    THEN params["model"]["type"]
    ELSE <<"unet", "unet">>

\* C4: an identifier that cannot be resolved (its submodule is not found,
\* its function is missing from the submodule found, or it has no dotted
\* submodule part) makes the build fail with ModelNotFoundError and with no
\* other error.
C4_UnresolvedIsModelNotFound ==
    (Called /\ mode \in KnownModes
        /\ ConfiguredModelType \in
            {<<"nonexistent", "foo">>, <<"unet", "missing">>, <<"unet">>}) =>
        FailedWith(ModelNotFoundError)

\* every optional key that is present holds a supported value
PresentOptionsSupported ==
    /\ ConfiguredModelType = <<"unet", "unet">>
    /\ Has(params, "loss_type") => params["loss_type"] \in {L1_MASK, WEIGHTED_L1_MASK}
    /\ Has(params, "mask_extension") => params["mask_extension"] \in {"average", "zeros"}

\* C5: with the seven required keys and a learning_rate, model_fn returns a
\* spec in PREDICT, EVAL and TRAIN mode whatever subset of the optional keys
\* is omitted.
C5_OptionalKeysOptional ==
    (Called /\ mode \in KnownModes /\ Has(params, "learning_rate")
        /\ PresentOptionsSupported) => Returned

\* C6: when model_fn fails with one of the four configuration errors, the
\* features map holds exactly the entries it held when model_fn was called.
C6_FailsBeforeBuilding ==
    [][IsConfigurationError(result') => features' = features]_vars

\* C6, amended: when model_fn fails with one of the four configuration
\* errors, in EVAL and TRAIN mode and for an unsupported mode the features
\* map is unchanged, and in PREDICT mode it holds its former entries plus
\* {mix}_stft and {mix}_spectrogram.
C6_FailureLeavesFeatures ==
    [][IsConfigurationError(result') =>
        IF mode = PREDICT
        THEN /\ DOMAIN features' =
                    DOMAIN features \cup {StftKey(params["mix_name"]),
                                          SpectrogramKey(params["mix_name"])}
             /\ \A k \in DOMAIN features : features'[k] = features[k]
        ELSE features' = features]_vars

C6_Witness ==
    /\ mode = PREDICT
    /\ FailedWith(UnsupportedMaskExtensionError)
    /\ Has(features, "mix_stft")
    /\ Has(features, "mix_spectrogram")

\* the output dict of the call gets built
OutputDictBuilds ==
    /\ Has(params, "model")
    /\ Has(params["model"], "params")
    /\ ConfiguredModelType = <<"unet", "unet">>

LossTypeSupported ==
    Has(params, "loss_type") => params["loss_type"] \in {L1_MASK, WEIGHTED_L1_MASK}

OptimizerName == IF Has(params, "optimizer") THEN params["optimizer"] ELSE "unset"

\* C7: the optimizer name never makes the build fail: Adadelta is chosen by
\* its name with or without a learning rate, SGD gives gradient descent with
\* the configured rate, every other name and no name give Adam with the
\* configured rate; an unsupported loss type, mask extension, model
\* identifier or mode makes the call that reads it fail.
C7_OptimizerFallback ==
    /\ (mode = TRAIN /\ Returned) =>
        result.spec["train_op"] =
            IF OptimizerName = "Adadelta" THEN [optimizer |-> "AdadeltaOptimizer"]
            ELSE IF OptimizerName = "SGD"
            THEN [optimizer |-> "GradientDescentOptimizer",
                  rate |-> params["learning_rate"]]
            ELSE [optimizer |-> "AdamOptimizer", rate |-> params["learning_rate"]]
    /\ (mode = TRAIN /\ Called /\ OutputDictBuilds /\ LossTypeSupported
            /\ (OptimizerName = "Adadelta" \/ Has(params, "learning_rate"))) =>
        Returned
    /\ (mode \in {EVAL, TRAIN} /\ Called /\ OutputDictBuilds /\ ~LossTypeSupported) =>
        Failed
    /\ (mode = PREDICT /\ Called /\ OutputDictBuilds
            /\ ~(Has(params, "MWF") /\ params["MWF"])
            /\ Has(params, "separation_exponent")
            /\ Has(params, "mask_extension")
            /\ params["mask_extension"] \notin {"average", "zeros"}) => Failed
    /\ (mode \in KnownModes /\ Called /\ ConfiguredModelType # <<"unet", "unet">>) =>
        Failed
    /\ (Called /\ mode \notin KnownModes) => Failed

C7_Witness ==
    /\ mode = TRAIN
    /\ OptimizerName = "Momentum"
    /\ Returned
    /\ result.spec["train_op"].optimizer = "AdamOptimizer"

IsZeroTensor(t) == \A b \in DOMAIN t : \A k \in DOMAIN t[b] : t[b][k] = 0

\* C8: for magnitude spectrograms (values >= 0) the L1 and the weighted L1
\* loss are exactly 0 when every instrument's output equals its label; the
\* loss is never negative; the weight of a
\* term is the mean of the label, so under weighted L1 labels that are all
\* zero give loss 0 whatever the outputs are.
C8_LossZeroAndNonNegative ==
    (mode \in {EVAL, TRAIN} /\ Returned) =>
        /\ result.spec["loss"].den > 0
        /\ result.spec["loss"].num >= 0
        /\ net = labels => result.spec["loss"].num = 0
        /\ (Has(params, "loss_type") /\ params["loss_type"] = WEIGHTED_L1_MASK
                /\ \A k \in DOMAIN labels : IsZeroTensor(labels[k])) =>
            result.spec["loss"].num = 0

C8_Witness ==
    /\ mode = EVAL
    /\ Returned
    /\ Has(params, "loss_type")
    /\ params["loss_type"] = WEIGHTED_L1_MASK
    /\ net = labels
    /\ \E k \in DOMAIN labels : ~IsZeroTensor(labels[k])
    /\ result.spec["loss"].num = 0

\* the cells of a 4-D tensor
Cells(t) ==
    { <<b, i, f, c>> : b \in 1..Len(t), i \in 1..Len(t[1]),
                       f \in 1..Len(t[1][1]), c \in 1..Len(t[1][1][1]) }
At(t, x) == t[x[1]][x[2]][x[3]][x[4]]

\* the sum of the values of a function of finite domain
RECURSIVE SumFun(_)
SumFun(g) ==
    IF DOMAIN g = {} THEN 0
    ELSE LET x == CHOOSE y \in DOMAIN g : TRUE
         IN  g[x] + SumFun([y \in DOMAIN g \ {x} |-> g[y]])

\* C9: at every cell each instrument's mask is
\* (output^p + eps/N) / (sum_i output_i^p + eps) with N the number of
\* configured instruments; numerator and denominator are positive for
\* eps > 0, so the mask is finite and strictly positive even when every
\* output is zero; the masks of the configured instruments sum to 1.
\* With m = [num, den] and num, den standing for (c + e*eps)/N, the first
\* part is the identity num * (N*sum + N*eps) = (N*output^p + eps) * den of
\* polynomials in eps, coefficient by coefficient.
C9_RatioMasks ==
    (result.kind = "masks") =>
        /\ result.masks.kind = "ok"
        /\ LET masks == result.masks.value
               p == params["separation_exponent"]
               N == Len(params["instrument_list"])
               Out(i) == net[SpectrogramKey(i)]
           IN  /\ DOMAIN masks = Instruments
               /\ \A i \in Instruments : \A x \in Cells(Out(i)) :
                    LET m == At(masks[i], x)
                        Pow(j) == At(Out(j), x) ^ p
                        total == SumFun([j \in Instruments |-> Pow(j)])
                    IN  /\ m.num.c * N * total = N * Pow(i) * m.den.c
                        /\ m.num.c * N + m.num.e * N * total
                            = N * Pow(i) * m.den.e + m.den.c
                        /\ m.num.e * N = m.den.e
                        /\ m.num.c >= 0 /\ m.num.e > 0
                        /\ m.den.c >= 0 /\ m.den.e > 0
                        /\ \A j \in Instruments : At(masks[j], x).den = m.den
                        /\ SumFun([j \in Instruments |-> At(masks[j], x).num.c]) = m.den.c
                        /\ SumFun([j \in Instruments |-> At(masks[j], x).num.e]) = m.den.e

C9_Witness ==
    /\ result.kind = "masks"
    /\ result.masks.kind = "ok"
    /\ Cardinality(Instruments) = 2
    /\ \A k \in DOMAIN net : \A x \in Cells(net[k]) : At(net[k], x) = 0
    /\ \A i \in Instruments : \A x \in Cells(result.masks.value[i]) :
        At(result.masks.value[i], x) = [num |-> [c |-> 0, e |-> 1],
                                        den |-> [c |-> 0, e |-> 2]]

\* C10: extending a mask of F <= frame_length // 2 + 1 bins gives a mask of
\* exactly frame_length // 2 + 1 bins whose first F bins are the input;
\* under `average` every extra bin of a time frame holds, per channel, the
\* mean of that frame's F bins, under `zeros` every extra bin is 0, and any
\* other policy fails with the unsupported-mask-extension error.
C10_MaskExtension ==
    (result.kind = "extended") =>
        LET mask == result.mask
            policy == params["mask_extension"]
            F == params["F"]
            width == params["frame_length"] \div 2 + 1
        IN  IF policy \notin {"average", "zeros"}
            THEN result.extended = UnsupportedMaskExtensionError
            ELSE /\ result.extended.kind = "ok"
                 /\ LET extended == result.extended.value
                    IN  /\ DOMAIN extended = DOMAIN mask
                        /\ \A b \in DOMAIN mask :
                            /\ DOMAIN extended[b] = DOMAIN mask[b]
                            /\ \A i \in DOMAIN mask[b] :
                                /\ Len(extended[b][i]) = width
                                /\ \A f \in 1..width :
                                    /\ DOMAIN extended[b][i][f] = DOMAIN mask[b][i][1]
                                    /\ \A c \in DOMAIN mask[b][i][1] :
                                        LET v == extended[b][i][f][c]
                                        IN  /\ v.den > 0
                                            /\ f <= F => v.num = mask[b][i][f][c] * v.den
                                            /\ (f > F /\ policy = "average") =>
                                                v.num * F = v.den * SumFun([g \in 1..F |-> mask[b][i][g][c]])
                                            /\ (f > F /\ policy = "zeros") => v.num = 0

C10_Witness ==
    /\ result.kind = "extended"
    /\ params["mask_extension"] = "average"
    /\ params["F"] = 2
    /\ params["frame_length"] = 4
    /\ result.extended.kind = "ok"
    /\ Len(result.mask[1][1][1]) = 2
    /\ result.mask[1][1] = <<<<0, 2>>, <<1, 2>>>>
    /\ result.extended.value[1][1][3] = <<[num |-> 1, den |-> 2], [num |-> 4, den |-> 2]>>

====
